---- MODULE Spec2Model ----
(***************************************************************************)
(* date-helper: timezone-aware date utilities built on dayjs with the utc, *)
(* timezone, isoWeek and quarterOfYear plugins.                            *)
(*                                                                         *)
(* Every exported function is a pure function of its arguments, of the     *)
(* host's local zone and (for dayjs.tz and dayjs(undefined)) of the        *)
(* current time.  The model draws the host zone, the current time, the     *)
(* date argument and the tz argument in Init; one action per exported      *)
(* function applies it and records the arguments and the returned value.   *)
(*                                                                         *)
(* Time values.  A JavaScript Date holds a number of milliseconds since    *)
(* the epoch, or NaN.  TLC's integers are 32 bits wide, so a time value is *)
(* the record [ok, s, ms]: whole seconds since 1970-01-01T00:00:00Z and    *)
(* the milliseconds 0..999 within the second; ok = FALSE is NaN.           *)
(***************************************************************************)
EXTENDS Integers, Sequences, FiniteSets, TLC

VARIABLES host,   \* the host's local zone (process-wide, fixed)
          now,    \* the current time, read by dayjs() and dayjs.tz
          date,   \* the date argument
          tz,     \* the tz argument ("" is absent)
          op,     \* the exported function last called ("" before any call)
          amount, \* its numeric argument, where it has one
          date2,  \* its second date argument, where it has one
          date3,  \* its third date argument, where it has one
          ret,    \* the value it returned, or the error it threw
          prev,   \* the call whose returned Dayjs is now the date argument
          locale, \* its locale argument, where it has one
          L       \* dayjs: the global locale

vars == <<host, now, date, tz, op, amount, date2, date3, ret, prev, locale, L>>

----------------------------------------------------------------------------
(* Proleptic Gregorian calendar, as ECMAScript's MakeDay / YearFromTime.   *)

Civil(y, mo, d, h, mi, s, ms) ==
  [y |-> y, mo |-> mo, d |-> d, h |-> h, mi |-> mi, s |-> s, ms |-> ms]

\* Days since 1970-01-01 of year y, month m (1..12), day d; d may lie outside
\* the month (MakeDay adds the day linearly).  yy is the year that starts in
\* March and mp its month (0 = March).
DaysFromCivil(y, m, d) ==
  LET yy == IF m <= 2 THEN y - 1 ELSE y
      mp == IF m > 2 THEN m - 3 ELSE m + 9
  IN  yy * 365 + yy \div 4 - yy \div 100 + yy \div 400
        + (153 * mp + 2) \div 5 + d - 1 - 719468

\* The date of a day number, at 00:00:00.000: from the month mp (0 = March)
\* and the day doy of the year y that starts in March,
CivilOfMonth(y, doy, mp) ==
  Civil(IF mp < 10 THEN y ELSE y + 1, IF mp < 10 THEN mp + 3 ELSE mp - 9,
        doy - (153 * mp + 2) \div 5 + 1, 0, 0, 0, 0)

\* from the year yoe of the 400-year era that starts in the year y0 and the
\* day doe of the era,
CivilOfYear(y0, doe, yoe) ==
  CivilOfMonth(y0 + yoe, doe - (365 * yoe + yoe \div 4 - yoe \div 100),
               (5 * (doe - (365 * yoe + yoe \div 4 - yoe \div 100)) + 2) \div 153)

CivilOfEra(y0, doe) ==
  CivilOfYear(y0, doe,
              (doe - doe \div 1460 + doe \div 36524 - doe \div 146096) \div 365)

\* and from the day number.
CivilFromDays(z) ==
  CivilOfEra(((z + 719468) \div 146097) * 400, (z + 719468) % 146097)

\* Day of the week of a day number, 0 = Sunday (1970-01-01 was a Thursday).
WeekDayOf(days) == (days + 4) % 7

----------------------------------------------------------------------------
(* Time values and civil fields.                                           *)

NaT == [ok |-> FALSE, s |-> 0, ms |-> 0]
Tm(s, ms) == [ok |-> TRUE, s |-> s, ms |-> ms]

\* t plus ds seconds and dms milliseconds (dms of either sign).
TAdd(t, ds, dms) ==
  IF ~t.ok THEN NaT
  ELSE Tm(t.s + ds + (t.ms + dms) \div 1000, (t.ms + dms) % 1000)

TLess(a, b) == a.ok /\ b.ok /\ (a.s < b.s \/ (a.s = b.s /\ a.ms < b.ms))

\* Seconds since the epoch of civil fields read as UTC (MakeDate of MakeDay
\* and MakeTime); fields out of range carry.
SecOfCivil(f) ==
  DaysFromCivil(f.y + (f.mo - 1) \div 12, ((f.mo - 1) % 12) + 1, f.d) * 86400
    + f.h * 3600 + f.mi * 60 + f.s

\* The civil fields of a time value read as UTC.
CivilOfUtc(t) ==
  [CivilFromDays(t.s \div 86400) EXCEPT !.h = (t.s % 86400) \div 3600,
                                        !.mi = (t.s % 3600) \div 60,
                                        !.s = t.s % 60, !.ms = t.ms]

----------------------------------------------------------------------------
(* The timezone database (Intl), for the zones the tests use.              *)

KnownZones == {"UTC", "America/New_York", "Asia/Tokyo"}

FirstSundayFrom(days) == days + ((7 - WeekDayOf(days)) % 7)

\* America/New_York since 2007: daylight time from the second Sunday of March,
\* 02:00 EST (07:00Z), to the first Sunday of November, 02:00 EDT (06:00Z).
NYOffsetIn(y, s) ==
  IF /\ (FirstSundayFrom(DaysFromCivil(y, 3, 1)) + 7) * 86400 + 7 * 3600 <= s
     /\ s < FirstSundayFrom(DaysFromCivil(y, 11, 1)) * 86400 + 6 * 3600
  THEN -240 ELSE -300

\* The zone's offset from UTC in minutes at the instant of second s.
ZoneOffsetAt(zone, s) ==
  IF zone = "Asia/Tokyo" THEN 540
  ELSE IF zone = "America/New_York"
  THEN NYOffsetIn(CivilFromDays(s \div 86400).y, s)
  ELSE 0

ZoneOffsets(zone) ==
  IF zone = "Asia/Tokyo" THEN {540}
  ELSE IF zone = "America/New_York" THEN {-300, -240}
  ELSE {0}

SetMin(S) == CHOOSE x \in S : \A z \in S : x <= z
SetMax(S) == CHOOSE x \in S : \A z \in S : x >= z

\* The civil fields an instant has in a zone.
CivilIn(zone, t) == CivilOfUtc(TAdd(t, ZoneOffsetAt(zone, t.s) * 60, 0))

\* The instant of a local civil time (ls: its seconds read as UTC) in a zone:
\* ECMAScript's UTC(t).  The offset applied is the largest of the zone's
\* offsets that gives an instant at which it is in force, so a repeated local
\* time (fall back) is the earlier instant; a skipped local time (spring
\* forward) is read with the offset in force before the transition.
LocalToUtc(zone, ls, ms) ==
  Tm(ls - SetMax({SetMin(ZoneOffsets(zone))} \cup
                 {o \in ZoneOffsets(zone) :
                    ZoneOffsetAt(zone, ls - o * 60) = o}) * 60, ms)

----------------------------------------------------------------------------
(* Values passed to and returned by the exported functions.                *)
(*                                                                         *)
(* A date argument is a string, a Date, null, undefined or a Dayjs object. *)
(* A string is modelled by its shape and the fields written in it:         *)
(*   form "date-"  YYYY-MM-DD            form "date/"  YYYY/MM/DD          *)
(*   form "naiveT" YYYY-MM-DDTHH:mm:ss[.SSS]   (no zone designator)        *)
(*   form "naive " YYYY-MM-DD HH:mm:ss[.SSS]   (no zone designator)        *)
(*   form "Z"      ...Z                  form "off"    ...+HH:mm / -HH:mm  *)
(*   form "bad"    not a date            form "empty"  the empty string    *)
(* om is the written offset in minutes (0 unless form is "off").           *)

Str(form, f, om) == [k |-> "str", form |-> form, f |-> f, om |-> om]
DateObj(t)       == [k |-> "date", t |-> t]
Null             == [k |-> "null"]
Undefined        == [k |-> "undefined"]

NoFields == Civil(0, 0, 0, 0, 0, 0, 0)
BadStr   == Str("bad", NoFields, 0)
EmptyStr == Str("empty", NoFields, 0)

NaiveForms == {"date-", "date/", "naiveT", "naive "}

\* Returned values.  Throw is an exception: it propagates through every call
\* made on it.
Throw      == [k |-> "throw"]
NaN        == [k |-> "nan"]
Num(n)     == [k |-> "num", n |-> n]
\* A number passed as an argument: n + ms / 1000, ms in 0..999 (n is its
\* floor).
NumMs(n, ms) == [k |-> "num", n |-> n, ms |-> ms]
Bool(b)    == [k |-> "bool", b |-> b]
NoRet      == [k |-> "none"]
\* A formatted string: "Invalid Date", or the fields the pattern prints.
InvalidDateString == [k |-> "text", valid |-> FALSE, pat |-> "", f |-> NoFields]
Text(pat, f)      == [k |-> "text", valid |-> TRUE, pat |-> pat, f |-> f]

IsThrow(x) == x.k = "throw"

----------------------------------------------------------------------------
(* JavaScript Date in the host's zone.                                     *)

\* Math.round(a / b) for b > 0: halves round up.
RoundDiv(a, b) == (2 * a + b) \div (2 * b)

\* Date.prototype.getTimezoneOffset: minutes to add to local time to get UTC.
GetTimezoneOffset(t) == 0 - ZoneOffsetAt(host, t.s)

\* new Date(y, m, d, h, mi, s, ms) and the local setters: the fields as a
\* local time of the host.
DateOfLocal(f) == LocalToUtc(host, SecOfCivil(f), f.ms)
\* Date.UTC(...) and the UTC setters.
DateOfUtc(f) == Tm(SecOfCivil(f), f.ms)
\* The setters dayjs picks by $u.
DateOf(f, u) == IF u THEN DateOfUtc(f) ELSE DateOfLocal(f)

----------------------------------------------------------------------------
(* Dayjs objects (dayjs core with the utc and timezone plugins).           *)
(*   d      $d, the wrapped Date                                           *)
(*   u      $u, UTC mode                                                   *)
(*   hasOff, off   $offset (minutes), when defined                         *)
(*   lo     $x.$localOffset (0: not set, as the code tests it for truth)   *)
(*   zone   $x.$timezone ("": not set)                                     *)
(*   f      $y $M $D $H $m $s $ms as init() cached them (mo is 1..12)      *)

\* Dayjs.prototype.init (utc plugin's override for $u): the UTC getters or
\* the local getters of $d.
InitFields(d, u) ==
  IF ~d.ok THEN NoFields
  ELSE CivilOfUtc(TAdd(d, (IF u THEN 0 ELSE ZoneOffsetAt(host, d.s)) * 60, 0))

Dj(d, u, hasOff, off, lo, zone) ==
  [k |-> "dayjs", d |-> d, u |-> u, hasOff |-> hasOff, off |-> off, lo |-> lo,
   zone |-> zone, f |-> InitFields(d, u)]

IsValid(j) == j.d.ok

\* $W, from $d.getDay().
WeekDay(j) == WeekDayOf(DaysFromCivil(j.f.y, j.f.mo, j.f.d))

\* utc plugin: proto.valueOf.
ValueOf(j) ==
  IF ~j.d.ok THEN NaT
  ELSE IF j.hasOff
       THEN TAdd(j.d, 0 - (j.off + (IF j.lo # 0 THEN j.lo
                                     ELSE GetTimezoneOffset(j.d))) * 60, 0)
       ELSE j.d

\* toDate(): new Date(this.valueOf()).
ToDate(j) == ValueOf(j)

\* unix(): Math.floor(this.valueOf() / 1000).
Unix(j) ==
  IF IsThrow(j) THEN Throw
  ELSE IF IsValid(j) THEN Num(ValueOf(j).s) ELSE NaN

\* Utils.w(date, instance): a new object around a time value that keeps the
\* instance's mode, $offset and $x.
Wrap(t, j) == Dj(t, j.u, j.hasOff, j.off, j.lo, j.zone)

Clone(j) == Wrap(j.d, j)

\* utc plugin: proto.utcOffset() read (core: -round(getTimezoneOffset/15)*15).
UtcOffsetOf(j) ==
  IF j.u THEN 0
  ELSE IF j.hasOff THEN j.off
  ELSE 0 - RoundDiv(GetTimezoneOffset(j.d), 15) * 15

\* utc plugin: proto.utc.
Utc(j) == Dj(ToDate(j), TRUE, FALSE, 0, 0, "")

\* dayjs(x) / dayjs.utc(x): parseDate(cfg).  null is invalid, undefined is
\* now, a Date is copied, a number is a time value in milliseconds (new Date
\* cuts its fraction towards zero).  A string without a final Z that REGEX_PARSE matches
\* is built from its fields, in local time or with Date.UTC; every other
\* string goes to new Date(string), which reads an ISO string with Z or an
\* offset as the instant written and anything else here as NaN.
DayjsParseDate(x, utc) ==
  IF x.k = "null" THEN NaT
  ELSE IF x.k = "undefined" THEN now
  ELSE IF x.k = "date" THEN x.t
  ELSE IF x.k = "num"
  THEN Tm((IF x.n < 0 /\ x.ms > 0 THEN x.n + 1 ELSE x.n) \div 1000,
          (IF x.n < 0 /\ x.ms > 0 THEN x.n + 1 ELSE x.n) % 1000)
  ELSE IF x.form \in NaiveForms THEN DateOf(x.f, utc)
  ELSE IF x.form \in {"Z", "off"} THEN Tm(SecOfCivil(x.f) - x.om * 60, x.f.ms)
  ELSE NaT

\* dayjs(x): a Dayjs argument is cloned.
DayjsOf(x) ==
  IF x.k = "dayjs" THEN Clone(x)
  ELSE Dj(DayjsParseDate(x, FALSE), FALSE, FALSE, 0, 0, "")

\* dayjs.utc(x) is new Dayjs({date: x, utc: true}): a Dayjs argument goes to
\* new Date(x), which takes its valueOf().
DayjsUtcOf(x) ==
  Dj(IF x.k = "dayjs" THEN ValueOf(x) ELSE DayjsParseDate(x, TRUE),
     TRUE, FALSE, 0, 0, "")

\* dayjs(this.format('YYYY-MM-DD HH:mm:ss:SSS')): the cached fields read again
\* as a local time of the host.
WithoutTz(j) ==
  Dj(IF IsValid(j) THEN DateOfLocal(j.f) ELSE NaT, FALSE, FALSE, 0, 0, "")

\* add(n, unit) for the units below a day: $d.getTime() + n * step, wrapped
\* with the instance's $offset unchanged.
AddTime(j, secs, ms) == Wrap(TAdd(j.d, secs, ms), j)

\* utc plugin: proto.utcOffset(input, keepLocalTime) as a setter.  An input
\* of at most 16 is in hours.
OffsetMinutes(input) ==
  IF -16 <= input /\ input <= 16 THEN input * 60 ELSE input

\* With keepLocalTime it sets $offset and $u on the object itself and does
\* not run init(), so the cached fields stay.
UtcOffsetKeep(j, input) ==
  [j EXCEPT !.hasOff = TRUE, !.off = OffsetMinutes(input), !.u = (input = 0)]

\* Without it, and for a non-zero input, the object is this.local(), which
\* is dayjs(this.toDate()), moved by
\* offset + localTimezoneOffset minutes,
UtcOffsetMove(j, offset, localTimezoneOffset) ==
  [AddTime(Dj(ToDate(j), FALSE, FALSE, 0, 0, ""), (offset + localTimezoneOffset) * 60, 0)
     EXCEPT !.hasOff = TRUE, !.off = offset, !.lo = localTimezoneOffset]

\* where localTimezoneOffset is this.$u ? this.toDate().getTimezoneOffset()
\* : -1 * this.utcOffset(); for 0 it is this.utc().
UtcOffsetSet(j, input, keepLocalTime) ==
  IF keepLocalTime THEN UtcOffsetKeep(j, input)
  ELSE IF input # 0
  THEN UtcOffsetMove(j, OffsetMinutes(input),
                     IF j.u THEN GetTimezoneOffset(ToDate(j))
                     ELSE 0 - UtcOffsetOf(j))
  ELSE Utc(j)

\* timezone plugin: proto.tz(timezone, keepLocalTime), from date = toDate()
\* and tgt = new Date(target).  Its offset is
\* -round(date.getTimezoneOffset() / 15) * 15 - diff, where diff is
\* round((date - new Date(target)) / 1000 / 60).
TzOffset(dt, tgt) ==
  (0 - RoundDiv(GetTimezoneOffset(dt), 15) * 15)
    - RoundDiv((dt.s - tgt.s) * 1000 + dt.ms, 60000)

\* if (keepLocalTime) ins = ins.add(oldOffset - ins.utcOffset(), 'minute').
TzKeepLocalTime(ins, keepLocalTime, oldOffset) ==
  IF keepLocalTime THEN AddTime(ins, (oldOffset - UtcOffsetOf(ins)) * 60, 0)
  ELSE ins

\* An offset of 0 (NaN for an invalid object) is utcOffset(0, keepLocalTime)
\* of the object; any other is dayjs(target).$set('millisecond', $ms)
\* .utcOffset(offset, true).
TzWith(j, zone, keepLocalTime, dt, tgt) ==
  [(IF ~IsValid(j) \/ TzOffset(dt, tgt) = 0
    THEN UtcOffsetSet(j, 0, keepLocalTime)
    ELSE TzKeepLocalTime(UtcOffsetKeep(Dj(Tm(tgt.s, j.f.ms), FALSE, FALSE, 0, 0, ""),
                                       TzOffset(dt, tgt)),
                         keepLocalTime, UtcOffsetOf(j)))
   EXCEPT !.zone = zone]

\* toLocaleString gives the civil time in the zone to the second ("Invalid
\* Date" for an invalid Date, before it looks at the zone; a RangeError for
\* an unknown zone), and new Date(target) reads that text back as a local
\* time of the host.
ProtoTz(j, zone, keepLocalTime) ==
  IF IsValid(j) /\ zone \notin KnownZones THEN Throw
  ELSE TzWith(j, zone, keepLocalTime, ToDate(j),
              DateOfLocal([CivilIn(zone, ToDate(j)) EXCEPT !.ms = 0]))

\* this.tz(zone, keepLocalTime) when a zone is there.
TzIfGiven(d, zone, keepLocalTime) ==
  IF zone = "" THEN d ELSE ProtoTz(d, zone, keepLocalTime)

\* core startOf(day) / endOf(day): instanceFactorySet('set[UTC]Hours', ...)
\* on toDate('s'), which for a non-zero $offset is (utc plugin)
\* dayjs(this.format('YYYY-MM-DD HH:mm:ss:SSS')).toDate(): the cached fields
\* read as a local time of the host.
DayEdge(f, isStartOf) ==
  IF isStartOf THEN [f EXCEPT !.h = 0, !.mi = 0, !.s = 0, !.ms = 0]
  ELSE [f EXCEPT !.h = 23, !.mi = 59, !.s = 59, !.ms = 999]

OldStartOfDay(j, isStartOf) ==
  Wrap(DateOf(DayEdge(InitFields(IF IsValid(j) /\ j.hasOff /\ j.off # 0
                                  THEN DateOfLocal(j.f) ELSE ToDate(j), j.u),
                      isStartOf), j.u), j)

\* core startOf: instanceFactory(d, m) builds year $y, month m (0-based), day
\* d at 00:00 and, for endOf, takes the end of that day.
EndOfDayUnless(isStartOf, ins) ==
  IF isStartOf THEN ins ELSE OldStartOfDay(ins, FALSE)

InstanceFactory(j, d, m, isStartOf) ==
  EndOfDayUnless(isStartOf, Wrap(DateOf(Civil(j.f.y, m + 1, d, 0, 0, 0, 0), j.u), j))

\* core startOf(units, startOf) for the units used here: instanceFactory of
\* (1, 0) or (31, 11) for the year, (1, $M) or (0, $M + 1) for the month,
\* ($D - $W, $M) or ($D + (6 - $W), $M) for the week (the locale's weekStart
\* is 0, en); any other unit (undefined, null) clones.
OldStartOf(j, unit, isStartOf) ==
  IF ~IsValid(j) \/ unit \notin {"year", "month", "week", "day"} THEN Clone(j)
  ELSE IF unit = "day" THEN OldStartOfDay(j, isStartOf)
  ELSE InstanceFactory(j,
         IF unit = "year" THEN (IF isStartOf THEN 1 ELSE 31)
         ELSE IF unit = "month" THEN (IF isStartOf THEN 1 ELSE 0)
         ELSE IF isStartOf THEN j.f.d - WeekDay(j) ELSE j.f.d + (6 - WeekDay(j)),
         IF unit = "year" THEN (IF isStartOf THEN 0 ELSE 11)
         ELSE IF unit = "month" /\ ~isStartOf THEN j.f.mo
         ELSE j.f.mo - 1,
         isStartOf)

\* timezone plugin: proto.startOf.  An object with $x.$timezone is formatted,
\* read back as a local time, cut there, and moved back with tz(zone, true).
StartOf(j, unit, isStartOf) ==
  TzIfGiven(OldStartOf(IF j.zone = "" THEN j ELSE WithoutTz(j), unit, isStartOf),
            j.zone, TRUE)

EndOf(j, unit) == StartOf(j, unit, FALSE)

\* daysInMonth(): this.endOf('month').$D.
DaysInMonthOf(j) == EndOf(j, "month").f.d

\* set('date', n): clone().$set: $d.set[UTC]Date(n), then init().
SetDate(j, n) == Wrap(DateOf([Clone(j).f EXCEPT !.d = n], j.u), j)

\* set('month', m) (m 0-based, any integer) and set('year', y): clone().$set
\* goes to day 1 of a further clone, calls set[UTC]Month(m) or
\* set[UTC]FullYear(y) there,
SetField(first, unit, arg) ==
  Wrap(DateOf(IF unit = "month" THEN [first.f EXCEPT !.mo = arg + 1]
              ELSE [first.f EXCEPT !.y = arg], first.u), first)

\* and then sets the day to Math.min(this.$D, date.daysInMonth()).
ClampDay_NoClamp(c, moved) ==
  Wrap(SetDate(moved, c.f.d).d, c)

ClampDay(c, moved) ==
  Wrap(SetDate(moved, SetMin({c.f.d, DaysInMonthOf(moved)})).d, c)

Set(j, unit, arg) == ClampDay(Clone(j), SetField(SetDate(j, 1), unit, arg))

\* add(n, 'day'): d = dayjs(this); Utils.w(d.date(d.date() + n), this).
AddDay(j, n) == Clone(SetDate(j, Clone(j).f.d + n))

\* add(number, units); the units below a day step by 3600 s, 60 s or 1 ms.
Add(j, n, unit) ==
  IF IsThrow(j) THEN Throw
  ELSE IF ~IsValid(j) THEN Clone(j)
  ELSE IF unit \in {"month", "year"}
  THEN Set(j, unit, (IF unit = "month" THEN j.f.mo - 1 ELSE j.f.y) + n)
  ELSE IF unit = "day" THEN AddDay(j, n)
  ELSE AddTime(j, IF unit = "hour" THEN n * 3600
                  ELSE IF unit = "minute" THEN n * 60 ELSE 0,
               IF unit \in {"hour", "minute"} THEN 0 ELSE n)

\* format(pattern) for the patterns the helpers and the tests use: "Invalid
\* Date" for an invalid object, else the cached fields the pattern prints.
PatDay     == "YYYY-MM-DD"
PatDayTime == "YYYY-MM-DD HH:mm:ss"

Format(j, pat) ==
  IF IsThrow(j) THEN Throw
  ELSE IF ~IsValid(j) THEN InvalidDateString
  ELSE IF pat = PatDay THEN Text(pat, Civil(j.f.y, j.f.mo, j.f.d, 0, 0, 0, 0))
  ELSE Text(pat, Civil(j.f.y, j.f.mo, j.f.d, j.f.h, j.f.mi, j.f.s, 0))

\* year(), month() and day(): the cached fields, NaN for an invalid object.
Year(j) ==
  IF IsThrow(j) THEN Throw ELSE IF IsValid(j) THEN Num(j.f.y) ELSE NaN

Month(j) ==
  IF IsThrow(j) THEN Throw ELSE IF IsValid(j) THEN Num(j.f.mo - 1) ELSE NaN

Day(j) ==
  IF IsThrow(j) THEN Throw ELSE IF IsValid(j) THEN Num(WeekDay(j)) ELSE NaN

\* isBefore(that) / isAfter(that) without units: this.endOf(undefined) <
\* dayjs(that), dayjs(that) < this.startOf(undefined); a comparison with NaN
\* is false.
IsBeforeDj(a, b) ==
  IF IsThrow(a) \/ IsThrow(b) THEN Throw
  ELSE Bool(TLess(ValueOf(EndOf(a, "")), ValueOf(Clone(b))))

IsAfterDj(a, b) ==
  IF IsThrow(a) \/ IsThrow(b) THEN Throw
  ELSE Bool(TLess(ValueOf(Clone(b)), ValueOf(StartOf(a, "", TRUE))))

\* isBetween plugin with inclusivity '[]'.
IsBetweenDj(x, a, b) ==
  IF IsThrow(x) \/ IsThrow(a) \/ IsThrow(b) THEN Throw
  ELSE Bool(\/ ~IsBeforeDj(x, a).b /\ ~IsAfterDj(x, b).b
            \/ ~IsAfterDj(x, a).b /\ ~IsBeforeDj(x, b).b)

\* timezone plugin: tzOffset(timestamp, zone) is the zone's offset in minutes
\* at the timestamp; fixOffset(localTS, o0, tz) tries o0, then the offset o2
\* found at that guess, and then, with the offset o3 found at the second
\* guess localTS - o2, returns [localTS - min(o2, o3), max(o2, o3)], which
\* is [localTS - o2, o2] when o2 = o3.
FixOffset2(localTs, o0, zone, o2) ==
  IF o0 = o2 THEN <<TAdd(localTs, 0 - o0 * 60, 0), o0>>
  ELSE <<TAdd(localTs, 0 - SetMin({o2, ZoneOffsetAt(zone, TAdd(localTs, 0 - o2 * 60, 0).s)}) * 60, 0),
         SetMax({o2, ZoneOffsetAt(zone, TAdd(localTs, 0 - o2 * 60, 0).s)})>>

FixOffset(localTs, o0, zone) ==
  FixOffset2(localTs, o0, zone, ZoneOffsetAt(zone, TAdd(localTs, 0 - o0 * 60, 0).s))

\* timezone plugin: dayjs.tz(input, zone).  Intl.DateTimeFormat throws a
\* RangeError for an unknown zone, and formatToParts for an invalid time.
\* For a string read as UTC (localTs), fixOffset starts from the zone's
\* offset now, and the result is d(targetTs).utcOffset(targetOffset) with
\* $x.$timezone set;
TzOfLocalTs(localTs, zone) ==
  IF ~localTs.ok THEN Throw
  ELSE [UtcOffsetSet(Dj(FixOffset(localTs, ZoneOffsetAt(zone, now.s), zone)[1],
                        FALSE, FALSE, 0, 0, ""),
                     FixOffset(localTs, ZoneOffsetAt(zone, now.s), zone)[2], FALSE)
          EXCEPT !.zone = zone]

\* for anything else, d(input).tz(zone).
TzStatic(x, zone) ==
  IF zone \notin KnownZones THEN Throw
  ELSE IF x.k # "str" THEN ProtoTz(DayjsOf(x), zone, FALSE)
  ELSE TzOfLocalTs(ValueOf(DayjsUtcOf(x)), zone)

\* Utils.a(n) of (a - b - zd minutes) / (w seconds): the quotient cut towards
\* zero (core diff for the units week and day).
DiffUnits(a, b, zd, w) ==
  LET m    == a.ms - b.ms
      secs == (a.s - b.s) - zd * 60 + m \div 1000
      frac == m % 1000
  IN  IF secs >= 0 THEN secs \div w
      ELSE 0 - (((0 - secs) - (IF frac > 0 THEN 1 ELSE 0)) \div w)

\* core diff(input, units) between objects of the same mode, for a unit of w
\* seconds (week, day): that is dayjs(input), zoneDelta is that.utcOffset()
\* - this.utcOffset().
Diff(a, b, w) ==
  DiffUnits(ValueOf(a), ValueOf(b), UtcOffsetOf(Clone(b)) - UtcOffsetOf(a), w)

\* isoWeek plugin: isoWeekday(), getCurrentWeekThursday, getYearFirstThursday
\* (which starts from dayjs() or dayjs.utc(), i.e. now) and isoWeek().
IsoWeekday(j) == IF WeekDay(j) = 0 THEN 7 ELSE WeekDay(j)

FirstThursdayFrom(yearFirstDay) ==
  AddDay(yearFirstDay, IF IsoWeekday(yearFirstDay) > 4
                       THEN 4 - IsoWeekday(yearFirstDay) + 7
                       ELSE 4 - IsoWeekday(yearFirstDay))

YearFirstThursday(year, isUtc) ==
  FirstThursdayFrom(StartOf(Set(Dj(now, isUtc, FALSE, 0, 0, ""), "year", year),
                            "year", TRUE))

\* isoWeek(): nowWeekThursday.diff(getYearFirstThursday(this.isoWeekYear(),
\* this.$u), 'week') + 1, where isoWeekYear() is nowWeekThursday.year() and
\* nowWeekThursday is this.add(4 - this.isoWeekday(), 'day').
IsoWeekFrom_ZeroBased(nowWeekThursday, isUtc) ==
  Num(Diff(nowWeekThursday, YearFirstThursday(nowWeekThursday.f.y, isUtc),
           7 * 86400))

IsoWeekFrom(nowWeekThursday, isUtc) ==
  Num(Diff(nowWeekThursday, YearFirstThursday(nowWeekThursday.f.y, isUtc),
           7 * 86400) + 1)

IsoWeek(j) ==
  IF IsThrow(j) THEN Throw
  ELSE IF ~IsValid(j) THEN NaN
  ELSE IsoWeekFrom(AddDay(j, 4 - IsoWeekday(j)), j.u)

\* quarterOfYear plugin: quarter() is Math.ceil((this.month() + 1) / 3).
Quarter(j) ==
  IF IsThrow(j) THEN Throw
  ELSE IF ~IsValid(j) THEN NaN ELSE Num((j.f.mo + 2) \div 3)

\* quarterOfYear plugin: proto.startOf, which wraps the timezone plugin's.
\* For the unit quarter it is this.month(quarter * 3).startOf('month')
\* .startOf('day'), or this.month(quarter * 3 + 2).endOf('month')
\* .endOf('day'), with quarter = this.quarter() - 1.
QuarterStartOf(j, unit, isStartOf) ==
  IF IsThrow(j) THEN Throw
  ELSE IF unit # "quarter" THEN StartOf(j, unit, isStartOf)
  ELSE IF ~IsValid(j) THEN Clone(j)
  ELSE StartOf(StartOf(Set(j, "month", ((j.f.mo - 1) \div 3) * 3
                                          + (IF isStartOf THEN 0 ELSE 2)),
                       "month", isStartOf),
               "day", isStartOf)

\* dayjs: the locales registered (Ls): "en" and those the module imports
\* (dayjs/locale/es, fr, de, ja register themselves without becoming global).
Ls == {"en", "es", "fr", "de", "ja"}

\* A locale argument: a language with an optional region ("es", "es-MX"), or
\* none.
Tag(lang, region) == [lang |-> lang, region |-> region]
NoLocale == Tag("", "")

\* dayjs parseLocale(preset, object, isLocal) with a string preset and no
\* object: the name it returns ("" when falsy) and the global locale it
\* leaves.  A preset that is not registered and has a "-" is answered by
\* parseLocale(presetSplit[0]), which is not passed isLocal.
ParseLocale(preset, isLocal) ==
  IF preset.lang = "" THEN [l |-> L, L |-> L]
  ELSE IF preset.region # ""
  THEN IF preset.lang \in Ls THEN [l |-> preset.lang, L |-> preset.lang]
       ELSE [l |-> L, L |-> L]
  ELSE IF preset.lang \in Ls
  THEN [l |-> preset.lang, L |-> IF isLocal THEN L ELSE preset.lang]
  ELSE [l |-> IF isLocal THEN "" ELSE L, L |-> L]

\* dayjs format("MMMM") and format("dddd") of a value whose locale is lang:
\* the name of the month (1..12) or of the weekday (0..6) in that locale.
FormatName(j, lang, pat) ==
  IF IsThrow(j) THEN Throw
  ELSE IF ~IsValid(j) THEN InvalidDateString
  ELSE [k |-> "name", lang |-> lang, pat |-> pat,
        n |-> IF pat = "MMMM" THEN j.f.mo ELSE WeekDay(j)]

----------------------------------------------------------------------------
(* The exported functions.  Each returns its value, or Throw when a call it *)
(* makes throws.                                                           *)

\* withTimezone (the core helper, isoFiscal.ts l. 76-86).  An absent or empty
\* tz is falsy.
withTimezone(x, zone) == TzIfGiven(DayjsOf(x), zone, FALSE)

\* formatting.ts: formatDate, formatDateTime, parseDate.
formatDate(x, format, zone) == Format(withTimezone(x, zone), format)

formatDateTime(x, zone) == formatDate(x, PatDayTime, zone)

parseDate(x, zone) == withTimezone(x, zone)

\* index.ts l. 27-43: year(), month() + 1 and day().
PlusOne(v) == IF v.k = "num" THEN Num(v.n + 1) ELSE v

getYear(x, zone) == Year(withTimezone(x, zone))

getMonth(x, zone) == PlusOne(Month(withTimezone(x, zone)))

getDay(x, zone) == Day(withTimezone(x, zone))

\* comparison.ts: isSameDay compares the two texts.
SameText(a, b) == IF IsThrow(a) \/ IsThrow(b) THEN Throw ELSE Bool(a = b)

isSameDay(x1, x2, zone) ==
  SameText(Format(withTimezone(x1, zone), PatDay),
           Format(withTimezone(x2, zone), PatDay))

isBefore(x1, x2, zone) ==
  IsBeforeDj(withTimezone(x1, zone), withTimezone(x2, zone))

isAfter(x1, x2, zone) ==
  IsAfterDj(withTimezone(x1, zone), withTimezone(x2, zone))

\* day === 0 || day === 6, where day is NaN for an invalid date.
IsZeroOrSix(day) ==
  IF IsThrow(day) THEN Throw ELSE Bool(day.k = "num" /\ day.n \in {0, 6})

isWeekend(x, zone) == IsZeroOrSix(Day(withTimezone(x, zone)))

\* !isWeekend(date, tz).
Not(v) == IF IsThrow(v) THEN Throw ELSE Bool(~v.b)

isWeekday(x, zone) == Not(isWeekend(x, zone))

\* isBetween (unnamed/part_003 l. 11-21): inclusive at both ends.
isBetween(x, start, end, zone) ==
  IsBetweenDj(withTimezone(x, zone), withTimezone(start, zone),
              withTimezone(end, zone))

\* math.ts: add<Unit> and subtract<Unit> differ in the unit and the method only.
addUnit(x, n, zone, unit) == Add(withTimezone(x, zone), n, unit)

\* dayjs subtract(number, units) is add(number * -1, units).
subtractUnit(x, n, zone, unit) == Add(withTimezone(x, zone), n * (0 - 1), unit)

\* isoFiscal.ts: getISOWeek, getISOYear, getQuarter.
getISOWeek(x, zone) ==
  IsoWeek(IF zone # "" THEN TzStatic(x, zone) ELSE DayjsOf(x))

getISOYear(x, zone) == Year(withTimezone(x, zone))

getQuarter(x, zone) == Quarter(withTimezone(x, zone))

\* toUnixTimestamp (unnamed/part_003 l. 155-172): !date is true for
\* undefined, null, the empty string and the number 0.
Falsy_UndefinedPasses(x) ==
  \/ x.k = "null"
  \/ x.k = "str" /\ x.form = "empty"
  \/ x.k = "num" /\ x.n = 0 /\ x.ms = 0

Falsy(x) ==
  \/ x.k \in {"undefined", "null"}
  \/ x.k = "str" /\ x.form = "empty"
  \/ x.k = "num" /\ x.n = 0 /\ x.ms = 0

toUnixTimestamp(x, zone) ==
  IF Falsy(x) THEN Throw
  ELSE Unix(IF zone = "UTC" THEN DayjsUtcOf(x)
            ELSE IF zone # "" THEN TzStatic(x, zone)
            ELSE DayjsOf(x))

\* daysBetween (unnamed/part_003 l. 26-34): Math.abs(d1.diff(d2, "day")) of
\* d1 = withTimezone(date1, tz).startOf("day") and d2 likewise; NaN when
\* either is invalid.
Abs(n) == IF n < 0 THEN 0 - n ELSE n

DaysApart(j1, j2) ==
  IF IsThrow(j1) \/ IsThrow(j2) THEN Throw
  ELSE IF ~IsValid(j1) \/ ~IsValid(j2) THEN NaN
  ELSE Num(Abs(Diff(StartOf(j1, "day", TRUE), StartOf(j2, "day", TRUE), 86400)))

daysBetween(x1, x2, zone) ==
  DaysApart(withTimezone(x1, zone), withTimezone(x2, zone))

\* startOfDay, startOfMonth (unnamed/part_003 l. 39-41, 80-82) and
\* startOfQuarter (isoFiscal.ts l. 36-38): withTimezone(date, tz)
\* .startOf(unit); endOfDay, endOfMonth (l. 46-48, 87-89) and endOfQuarter
\* (isoFiscal.ts l. 43-45): withTimezone(date, tz).endOf(unit).
startOfUnit(x, zone, unit) == QuarterStartOf(withTimezone(x, zone), unit, TRUE)

endOfUnit(x, zone, unit) == QuarterStartOf(withTimezone(x, zone), unit, FALSE)

\* startOfWeek (unnamed/part_003 l. 54-63): d.subtract(diff, "day")
\* .startOf("day") with day = d.day() and diff = (day < weekStart ? 7 : 0) +
\* day - weekStart.
startOfWeek(x, zone, weekStart) ==
  LET d == withTimezone(x, zone)
  IN  IF IsThrow(d) THEN Throw
      ELSE StartOf(Add(d, ((IF WeekDay(d) < weekStart THEN 7 ELSE 0)
                             + WeekDay(d) - weekStart) * (0 - 1), "day"),
                   "day", TRUE)

\* endOfWeek (unnamed/part_003 l. 69-75): startOfWeek(date, tz, weekStart)
\* .add(6, "day").endOf("day").
endOfWeek(x, zone, weekStart) ==
  LET start == startOfWeek(x, zone, weekStart)
  IN  IF IsThrow(start) THEN Throw ELSE EndOf(Add(start, 6, "day"), "day")

\* getMonthName (pat "MMMM") and getDayName (pat "dddd"): d.locale(locale)
\* .format(pat) when a locale is given, d.format(pat) otherwise, d being
\* withTimezone(date, tz), which carries the global locale.  d.locale(preset)
\* takes the name parseLocale(preset, null, true) returns, if any.
getName(x, zone, preset, pat) ==
  FormatName(withTimezone(x, zone),
             IF preset # NoLocale /\ ParseLocale(preset, TRUE).l # ""
             THEN ParseLocale(preset, TRUE).l ELSE L,
             pat)

\* dayjs.unix(t) is dayjs(t * 1000); null * 1000 is 0, and the product is NaN
\* for undefined and for a string that is not numeric.
DayjsUnix_Milliseconds(x) ==
  Dj(IF x.k = "num" THEN Tm(x.n \div 1000, x.n % 1000)
     ELSE IF x.k = "null" THEN Tm(0, 0) ELSE NaT,
     FALSE, FALSE, 0, 0, "")

DayjsUnix(x) ==
  Dj(IF x.k = "num" THEN Tm(x.n, x.ms)
     ELSE IF x.k = "null" THEN Tm(0, 0) ELSE NaT,
     FALSE, FALSE, 0, 0, "")

\* fromUnixTimestamp (unnamed/part_003 l. 177-193): typeof timestamp !==
\* "number" throws; then dayjs.unix(timestamp).utc() for "UTC",
\* dayjs.unix(timestamp).tz(tz) for another tz, dayjs.unix(timestamp) else.
IsNumber_Unchecked(x) == TRUE

IsNumber(x) == x.k = "num"

fromUnixTimestamp(x, zone) ==
  IF ~IsNumber(x) THEN Throw
  ELSE IF zone = "UTC" THEN Utc(DayjsUnix(x))
  ELSE TzIfGiven(DayjsUnix(x), zone, FALSE)

\* toUTC (unnamed/part_003 l. 198-206): a string that matches
\* /^\d{4}-\d{2}-\d{2}$/ goes to dayjs.utc(date), everything else to
\* dayjs(date).utc().
toUTC(x) ==
  IF x.k = "str" /\ x.form = "date-" THEN DayjsUtcOf(x) ELSE Utc(DayjsOf(x))

\* fromUTC (unnamed/part_003 l. 211-213): dayjs.utc(date).tz(tz).  Without
\* tz, proto.tz passes timeZone: undefined to toLocaleString, which is the
\* host's zone, and $x.$timezone stays undefined.
fromUTC(x, zone) ==
  IF zone = "" THEN [ProtoTz(DayjsUtcOf(x), host, FALSE) EXCEPT !.zone = ""]
  ELSE ProtoTz(DayjsUtcOf(x), zone, FALSE)

----------------------------------------------------------------------------
(* Arguments.                                                              *)

DateOnly(y, mo, d)  == Str("date-", Civil(y, mo, d, 0, 0, 0, 0), 0)
DateSlash(y, mo, d) == Str("date/", Civil(y, mo, d, 0, 0, 0, 0), 0)
NaiveT(y, mo, d, h, mi, s, ms)     == Str("naiveT", Civil(y, mo, d, h, mi, s, ms), 0)
NaiveSpace(y, mo, d, h, mi, s, ms) == Str("naive ", Civil(y, mo, d, h, mi, s, ms), 0)
ZStr(y, mo, d, h, mi, s, ms)       == Str("Z", Civil(y, mo, d, h, mi, s, ms), 0)
OffStr(y, mo, d, h, mi, s, om)     == Str("off", Civil(y, mo, d, h, mi, s, 0), om)

\* The strings and Dates of the tests, times at the daylight-saving
\* transitions of America/New_York (2022-03-13 and 2022-11-06), and a Sunday
\* evening in UTC that is Monday morning in Tokyo (2025-02-16T20:00:00Z).
DateInputs ==
  { DateOnly(2025, 5, 2), DateSlash(2025, 5, 2), DateOnly(2025, 1, 31),
    DateOnly(2024, 1, 31), DateOnly(2025, 3, 31), DateOnly(2024, 2, 29),
    DateOnly(2024, 12, 31), DateOnly(2025, 1, 1), DateOnly(2025, 2, 15),
    DateOnly(2025, 7, 15),
    NaiveT(2022, 3, 13, 1, 55, 0, 0), NaiveT(2022, 3, 13, 2, 30, 0, 0),
    NaiveT(2022, 11, 6, 1, 30, 0, 0), NaiveT(2022, 3, 12, 12, 0, 0, 0),
    NaiveSpace(2025, 2, 15, 10, 0, 59, 800),
    ZStr(2025, 2, 15, 1, 0, 0, 0), ZStr(2022, 3, 12, 17, 30, 0, 0),
    ZStr(2025, 5, 2, 0, 0, 0, 123), ZStr(2025, 2, 16, 20, 0, 0, 0),
    OffStr(2022, 3, 13, 1, 55, 0, -300), OffStr(2025, 1, 31, 23, 30, 0, -300),
    OffStr(2022, 11, 6, 1, 30, 0, -240), OffStr(2022, 11, 6, 1, 30, 0, -300),
    OffStr(2025, 2, 15, 23, 30, 0, -300), OffStr(2022, 3, 12, 12, 0, 0, -300),
    DateObj(DateOfUtc(Civil(2025, 2, 15, 10, 0, 0, 0))),
    DateObj(DateOfUtc(Civil(2022, 3, 12, 17, 30, 0, 0))),
    BadStr, EmptyStr, Null, Undefined }

\* Second and third date arguments of the comparisons.
OtherInputs ==
  { DateOnly(2025, 2, 15), DateOnly(2024, 1, 2),
    ZStr(2022, 3, 12, 17, 30, 0, 0),
    OffStr(2022, 11, 6, 1, 30, 0, -240), OffStr(2022, 11, 6, 1, 30, 0, -300),
    BadStr }

Hosts == KnownZones
TzArgs == {""} \cup KnownZones \cup {"Invalid/Zone"}

\* The current time: 2025-01-15T12:00:00Z (standard time in New York) or
\* 2025-07-15T12:00:00Z (daylight time).
Nows == {DateOfUtc(Civil(2025, 1, 15, 12, 0, 0, 0)), DateOfUtc(Civil(2025, 7, 15, 12, 0, 0, 0))}

\* Amounts of the arithmetic; years have a bound of their own, which keeps
\* every result before 2038.
MaxAmount == 13
MaxYears  == 4
Amounts     == (0 - MaxAmount) .. MaxAmount
YearAmounts == (0 - MaxYears) .. MaxYears

NoCall == [op |-> "", date |-> Null, amount |-> 0]

----------------------------------------------------------------------------
(* The state machine: the program has no state of its own; a behaviour is   *)
(* a call of one exported function on the arguments drawn in Init.         *)

Init ==
  /\ host \in Hosts
  /\ now \in Nows
  /\ date \in DateInputs
  /\ tz \in TzArgs
  /\ op = ""
  /\ amount = 0
  /\ date2 = Null
  /\ date3 = Null
  /\ ret = NoRet
  /\ prev = NoCall
  /\ locale = NoLocale
  /\ L = "en"

\* A call with one date argument.
Call1(name, value) ==
  /\ op = ""
  /\ op' = name
  /\ ret' = value
  /\ UNCHANGED <<host, now, date, tz, amount, date2, date3, prev, locale, L>>

FormatDate ==
  \E pat \in {PatDay, PatDayTime} :
    /\ op = ""
    /\ op' = "formatDate"
    /\ ret' = formatDate(date, pat, tz)
    /\ UNCHANGED <<host, now, date, tz, amount, date2, date3, prev, locale, L>>

FormatDateTime == Call1("formatDateTime", formatDateTime(date, tz))
ParseDate      == Call1("parseDate", parseDate(date, tz))
ToUnixTimestamp == Call1("toUnixTimestamp", toUnixTimestamp(date, tz))

\* A call with two date arguments.
IsSameDay ==
  \E x2 \in OtherInputs :
    /\ op = ""
    /\ op' = "isSameDay"
    /\ date2' = x2
    /\ ret' = isSameDay(date, x2, tz)
    /\ UNCHANGED <<host, now, date, tz, amount, date3, prev, locale, L>>

IsBefore ==
  \E x2 \in OtherInputs :
    /\ op = ""
    /\ op' = "isBefore"
    /\ date2' = x2
    /\ ret' = isBefore(date, x2, tz)
    /\ UNCHANGED <<host, now, date, tz, amount, date3, prev, locale, L>>

IsAfter ==
  \E x2 \in OtherInputs :
    /\ op = ""
    /\ op' = "isAfter"
    /\ date2' = x2
    /\ ret' = isAfter(date, x2, tz)
    /\ UNCHANGED <<host, now, date, tz, amount, date3, prev, locale, L>>

IsBetween ==
  \E x2 \in OtherInputs, x3 \in OtherInputs :
    /\ op = ""
    /\ op' = "isBetween"
    /\ date2' = x2
    /\ date3' = x3
    /\ ret' = isBetween(date, x2, x3, tz)
    /\ UNCHANGED <<host, now, date, tz, amount, prev, locale, L>>

DaysBetween ==
  \E x2 \in OtherInputs :
    /\ op = ""
    /\ op' = "daysBetween"
    /\ date2' = x2
    /\ ret' = daysBetween(date, x2, tz)
    /\ UNCHANGED <<host, now, date, tz, amount, date3, prev, locale, L>>

\* add<Unit>(date, n, tz) and subtract<Unit>(date, n, tz).  In a chained call
\* (prev is a call) the amount is that of the previous call.
MathCall(name, unit, isAdd, ns) ==
  \E n \in ns :
    /\ op = ""
    /\ prev.op # "" => n = prev.amount
    /\ op' = name
    /\ amount' = n
    /\ ret' = (IF isAdd THEN addUnit(date, n, tz, unit)
               ELSE subtractUnit(date, n, tz, unit))
    /\ UNCHANGED <<host, now, date, tz, date2, date3, prev, locale, L>>

\* math.ts: the twelve helpers differ in the unit and the direction only.
MathNext ==
  \/ MathCall("addDays", "day", TRUE, Amounts)
  \/ MathCall("subtractDays", "day", FALSE, Amounts)
  \/ MathCall("addMonths", "month", TRUE, Amounts)
  \/ MathCall("subtractMonths", "month", FALSE, Amounts)
  \/ MathCall("addYears", "year", TRUE, YearAmounts)
  \/ MathCall("subtractYears", "year", FALSE, YearAmounts)
  \/ MathCall("addHours", "hour", TRUE, Amounts)
  \/ MathCall("subtractHours", "hour", FALSE, Amounts)
  \/ MathCall("addMinutes", "minute", TRUE, Amounts)
  \/ MathCall("subtractMinutes", "minute", FALSE, Amounts)
  \/ MathCall("addMilliseconds", "millisecond", TRUE, Amounts)
  \/ MathCall("subtractMilliseconds", "millisecond", FALSE, Amounts)

Next ==
  \/ FormatDate \/ FormatDateTime \/ ParseDate
  \/ Call1("getYear", getYear(date, tz))
  \/ Call1("getMonth", getMonth(date, tz))
  \/ Call1("getDay", getDay(date, tz))
  \/ Call1("getISOWeek", getISOWeek(date, tz))
  \/ Call1("getISOYear", getISOYear(date, tz))
  \/ Call1("getQuarter", getQuarter(date, tz))
  \/ Call1("isWeekend", isWeekend(date, tz))
  \/ Call1("isWeekday", isWeekday(date, tz))
  \/ IsSameDay \/ IsBefore \/ IsAfter \/ IsBetween
  \/ DaysBetween
  \/ MathNext
  \/ ToUnixTimestamp

Spec == Init /\ [][Next]_vars

----------------------------------------------------------------------------
(* Chained calls: the Dayjs an arithmetic helper returned, or its toDate(),  *)
(* is the date argument of a second arithmetic call with the same amount    *)
(* and tz.                                                                  *)

ChainInputs ==
  { DateOnly(2025, 1, 31), DateOnly(2024, 2, 29),
    NaiveT(2022, 3, 12, 12, 0, 0, 0), OffStr(2022, 3, 12, 12, 0, 0, -300) }

InitChain ==
  /\ host \in Hosts
  /\ now = DateOfUtc(Civil(2025, 1, 15, 12, 0, 0, 0))
  /\ date \in ChainInputs
  /\ tz \in {""} \cup KnownZones
  /\ op = ""
  /\ amount = 0
  /\ date2 = Null
  /\ date3 = Null
  /\ ret = NoRet
  /\ prev = NoCall
  /\ locale = NoLocale
  /\ L = "en"

Feed ==
  /\ op # ""
  /\ prev = NoCall
  /\ ret.k = "dayjs"
  /\ prev' = [op |-> op, date |-> date, amount |-> amount]
  /\ \/ date' = ret
     \/ IsValid(ret) /\ date' = DateObj(ToDate(ret))
  /\ op' = ""
  /\ ret' = NoRet
  /\ UNCHANGED <<host, now, tz, amount, date2, date3, locale, L>>

NextChain == MathNext \/ Feed

SpecChain == InitChain /\ [][NextChain]_vars

----------------------------------------------------------------------------
(* The range helpers: startOf* and endOf* on the arguments drawn in Init;    *)
(* amount holds weekStart (0 when the argument is left out).                *)

WeekCall(name, isStartOf) ==
  \E weekStart \in 0..6 :
    /\ op = ""
    /\ op' = name
    /\ amount' = weekStart
    /\ ret' = (IF isStartOf THEN startOfWeek(date, tz, weekStart)
               ELSE endOfWeek(date, tz, weekStart))
    /\ UNCHANGED <<host, now, date, tz, date2, date3, prev, locale, L>>

NextRanges ==
  \/ Call1("startOfDay", startOfUnit(date, tz, "day"))
  \/ Call1("endOfDay", endOfUnit(date, tz, "day"))
  \/ Call1("startOfMonth", startOfUnit(date, tz, "month"))
  \/ Call1("endOfMonth", endOfUnit(date, tz, "month"))
  \/ Call1("startOfQuarter", startOfUnit(date, tz, "quarter"))
  \/ Call1("endOfQuarter", endOfUnit(date, tz, "quarter"))
  \/ WeekCall("startOfWeek", TRUE)
  \/ WeekCall("endOfWeek", FALSE)
  \/ Call1("getQuarter", getQuarter(date, tz))

SpecRanges == Init /\ [][NextRanges]_vars

----------------------------------------------------------------------------
(* The name helpers, called one after another on the same date and tz with  *)
(* and without a locale.                                                    *)

LocaleArgs == {NoLocale, Tag("es", ""), Tag("fr", ""), Tag("es", "MX"),
               Tag("xx", "")}

NameCall(name, pat) ==
  \E preset \in LocaleArgs :
    /\ op = ""
    /\ op' = name
    /\ locale' = preset
    /\ ret' = getName(date, tz, preset, pat)
    /\ L' = (IF preset = NoLocale \/ IsThrow(withTimezone(date, tz)) THEN L
             ELSE ParseLocale(preset, TRUE).L)
    /\ UNCHANGED <<host, now, date, tz, amount, date2, date3, prev>>

\* The call has returned; the next one is made.
Return ==
  /\ op # ""
  /\ op' = ""
  /\ ret' = NoRet
  /\ UNCHANGED <<host, now, date, tz, amount, date2, date3, prev, locale, L>>

NextNames ==
  \/ NameCall("getMonthName", "MMMM")
  \/ NameCall("getDayName", "dddd")
  \/ Return

SpecNames == Init /\ [][NextNames]_vars

----------------------------------------------------------------------------
(* The Unix and UTC conversions: a call on a timestamp or a date, and a     *)
(* second call on the Dayjs the first returned (or on its toDate()).  The   *)
(* dates are those above and 2022-03-13T07:30:00Z, which is 02:30 at the    *)
(* offset New York leaves at 07:00Z.                                        *)

\* Timestamp arguments: the epoch, before the epoch, 2025-02-15T00:00:00Z
\* whole and with a fraction, and either side of the 2022 transitions of
\* America/New_York (07:00Z on March 13, 06:00Z on November 6).
Timestamps ==
  { NumMs(0, 0), NumMs(-3600, 0), NumMs(-1, 0), NumMs(-1, 500),
    NumMs(1739577600, 0), NumMs(1739577600, 123),
    NumMs(1647154799, 0), NumMs(1647154799, 999), NumMs(1647155400, 0),
    NumMs(1667712600, 0), NumMs(1667716200, 0) }

InitUnix ==
  /\ host \in Hosts
  /\ now \in Nows
  /\ date \in Timestamps \cup DateInputs \cup {ZStr(2022, 3, 13, 7, 30, 0, 0)}
  /\ tz \in TzArgs
  /\ op = ""
  /\ amount = 0
  /\ date2 = Null
  /\ date3 = Null
  /\ ret = NoRet
  /\ prev = NoCall
  /\ locale = NoLocale
  /\ L = "en"

FromUnixTimestamp == Call1("fromUnixTimestamp", fromUnixTimestamp(date, tz))
ToUTC   == Call1("toUTC", toUTC(date))
FromUTC == Call1("fromUTC", fromUTC(date, tz))

NextUnix == ToUnixTimestamp \/ FromUnixTimestamp \/ ToUTC \/ FromUTC \/ Feed

SpecUnix == InitUnix /\ [][NextUnix]_vars

----------------------------------------------------------------------------
(* Properties.                                                              *)

NY    == "America/New_York"
Tokyo == "Asia/Tokyo"

InvalidInputs == {BadStr, EmptyStr, Null}

IsLeap(y) == (y % 4 = 0 /\ y % 100 # 0) \/ y % 400 = 0

\* The number of days of month m (1..12) of year y.
DaysInMonth(y, m) ==
  IF m = 2 THEN (IF IsLeap(y) THEN 29 ELSE 28)
  ELSE IF m \in {4, 6, 9, 11} THEN 30 ELSE 31

IsNaive(x)   == x.k = "str" /\ x.form \in NaiveForms
HasOffset(x) == x.k = "str" /\ x.form \in {"Z", "off"}

\* The instant a string with Z or an offset denotes, and the instant the
\* fields of a naive string denote as wall-clock time in a zone.
WrittenInstant(x) == Tm(SecOfCivil(x.f) - x.om * 60, x.f.ms)
WallInstant(x, zone) == LocalToUtc(zone, SecOfCivil(x.f), x.f.ms)
ExistsIn(x, zone) == CivilIn(zone, WallInstant(x, zone)) = x.f

\* C1: for a naive string (date-only included) and a given tz, the value the
\* helpers resolve has, in tz, the civil fields written in the string,
\* whatever the host zone: formatDateTime prints them, parseDate carries
\* them, getYear and getMonth report them.
C1_NaiveFieldsAreWallTimeInTz ==
  (IsNaive(date) /\ tz \in KnownZones /\ ExistsIn(date, tz)) =>
    /\ op = "formatDateTime" => ret = Text(PatDayTime, [date.f EXCEPT !.ms = 0])
    /\ op = "parseDate" => ret.k = "dayjs" /\ ret.f = date.f
    /\ op = "getYear" => ret = Num(date.f.y)
    /\ op = "getMonth" => ret = Num(date.f.mo)

\* C2: for a string with Z or an offset and a recognized tz or none,
\* parseDate returns the instant of the string with its civil fields in tz
\* (in the host zone without tz), and formatDate prints those fields.
C2_TzDoesNotMoveInstant ==
  (HasOffset(date) /\ tz \in KnownZones \cup {""}) =>
    LET zone   == IF tz = "" THEN host ELSE tz
        fields == CivilIn(zone, WrittenInstant(date))
    IN  /\ op = "parseDate" =>
             /\ ret.k = "dayjs"
             /\ ValueOf(ret) = WrittenInstant(date)
             /\ ret.f = fields
        /\ op = "formatDate" =>
             \/ ret = Text(PatDay, Civil(fields.y, fields.mo, fields.d, 0, 0, 0, 0))
             \/ ret = Text(PatDayTime, [fields EXCEPT !.ms = 0])

\* C3: every operation throws when tz is a non-empty identifier the zone
\* database does not know, whatever the date argument is.
C3_UnknownTzThrows ==
  (op # "" /\ tz # "" /\ tz \notin KnownZones) => IsThrow(ret)

\* C4: with an unparseable date argument and tz absent or recognized, every
\* boolean operation returns false.
C4_BooleanFalseOnInvalid ==
  (/\ op \in {"isSameDay", "isBefore", "isAfter", "isBetween", "isWeekend", "isWeekday"}
   /\ tz \in KnownZones \cup {""}
   /\ \/ date \in {BadStr, EmptyStr}
      \/ op \in {"isSameDay", "isBefore", "isAfter", "isBetween"} /\ date2 = BadStr
      \/ op = "isBetween" /\ date3 = BadStr)
  => ret = Bool(FALSE)

\* C5: with an unparseable or null date and tz absent or recognized,
\* formatDate and formatDateTime return "Invalid Date", the numeric getters
\* return NaN, parseDate returns an invalid value, and none throws.
C5_SoftInvalid ==
  (date \in InvalidInputs /\ tz \in KnownZones \cup {""}) =>
    /\ op \in {"formatDate", "formatDateTime"} => ret = InvalidDateString
    /\ op \in {"getYear", "getMonth", "getDay", "getISOWeek", "getISOYear", "getQuarter"}
         => ret = NaN
    /\ op = "parseDate" => ret.k = "dayjs" /\ ~IsValid(ret)

\* The value a helper works on: its date argument resolved in tz.
Resolved == withTimezone(date, tz)

\* The signed number of months a month or year helper moves by.
MonthsMoved ==
  IF op = "addMonths" THEN amount
  ELSE IF op = "subtractMonths" THEN 0 - amount
  ELSE IF op = "addYears" THEN 12 * amount
  ELSE 0 - 12 * amount

MonthYearOps == {"addMonths", "subtractMonths", "addYears", "subtractYears"}

\* C6: addMonths, subtractMonths, addYears and subtractYears move the month
\* by the signed amount with carry into the year, and the day-of-month of the
\* result is min(original day, last day of the target month).
C6_MonthYearClamp ==
  (op \in MonthYearOps /\ Resolved.k = "dayjs" /\ IsValid(Resolved)) =>
    LET o   == Resolved.f
        t   == (o.y * 12 + (o.mo - 1)) + MonthsMoved
        ty  == t \div 12
        tm  == (t % 12) + 1
        dim == DaysInMonth(ty, tm)
    IN  /\ ret.k = "dayjs"
        /\ ret.f.y = ty
        /\ ret.f.mo = tm
        /\ ret.f.d = (IF o.d < dim THEN o.d ELSE dim)

\* C6 happens: Jan 31 plus one month is clamped to the last day of February,
\* and Feb 29 plus four years stays Feb 29.
C6_Witness ==
  \/ /\ op = "addMonths" /\ amount = 1 /\ ret.k = "dayjs" /\ IsValid(ret)
     /\ Resolved.f.mo = 1 /\ Resolved.f.d = 31
     /\ ret.f.mo = 2 /\ ret.f.d = DaysInMonth(ret.f.y, 2)
  \/ /\ op = "addYears" /\ amount = 4 /\ ret.k = "dayjs" /\ IsValid(ret)
     /\ Resolved.f.mo = 2 /\ Resolved.f.d = 29
     /\ ret.f.mo = 2 /\ ret.f.d = 29

\* The first argument of the first call of a chain, resolved in tz.
FirstResolved == withTimezone(prev.date, tz)

\* C7: subtractDays(addDays(d, n, tz), n, tz), and likewise months and years,
\* gives back the instant and the civil fields of d resolved in tz when the
\* forward shift does not clamp the day-of-month, and the clamped day when
\* it does.
C7_RoundTrip ==
  (/\ \/ prev.op = "addDays" /\ op = "subtractDays"
      \/ prev.op = "addMonths" /\ op = "subtractMonths"
      \/ prev.op = "addYears" /\ op = "subtractYears"
   /\ amount = prev.amount
   /\ tz \in KnownZones
   /\ IsValid(FirstResolved))
  =>
    LET o   == FirstResolved.f
        k   == IF op = "subtractMonths" THEN amount
               ELSE IF op = "subtractYears" THEN 12 * amount ELSE 0
        t   == (o.y * 12 + (o.mo - 1)) + k
        dim == DaysInMonth(t \div 12, (t % 12) + 1)
    IN  /\ ret.k = "dayjs"
        /\ IF o.d <= dim
           THEN ret.f = o /\ ValueOf(ret) = ValueOf(FirstResolved)
           ELSE ret.f.d = dim

SubDayOps == {"addHours", "subtractHours", "addMinutes", "subtractMinutes",
              "addMilliseconds", "subtractMilliseconds"}

\* C8: addHours, addMinutes, addMilliseconds and their subtract forms move
\* the instant by exactly the signed amount times the unit length, and the
\* civil fields of the result are those of that instant in tz (in the host
\* zone without tz).
C8_SubDayShift ==
  (op \in SubDayOps /\ tz \in KnownZones \cup {""} /\ Resolved.k = "dayjs"
   /\ IsValid(Resolved))
  =>
    LET n    == IF op \in {"addHours", "addMinutes", "addMilliseconds"}
                THEN amount ELSE 0 - amount
        to   == IF op \in {"addHours", "subtractHours"}
                THEN TAdd(ValueOf(Resolved), n * 3600, 0)
                ELSE IF op \in {"addMinutes", "subtractMinutes"}
                THEN TAdd(ValueOf(Resolved), n * 60, 0)
                ELSE TAdd(ValueOf(Resolved), 0, n)
        zone == IF tz = "" THEN host ELSE tz
    IN  /\ ret.k = "dayjs"
        /\ ValueOf(ret) = to
        /\ ret.f = CivilIn(zone, to)

\* C9: for a Date and for a string with Z or an offset, toUnixTimestamp
\* returns the whole seconds of the argument's instant for every recognized
\* tz and without tz.
C9_UnixIgnoresTz ==
  (op = "toUnixTimestamp" /\ tz \in KnownZones \cup {""}
   /\ (date.k = "date" \/ HasOffset(date)))
  => ret = Num((IF date.k = "date" THEN date.t ELSE WrittenInstant(date)).s)

\* C10: toUnixTimestamp throws when its date argument is undefined, for
\* every tz including none.
C10_UndefinedThrows ==
  (op = "toUnixTimestamp" /\ date = Undefined) => IsThrow(ret)

\* C10 happens: toUnixTimestamp(undefined) was called without tz and with a
\* recognized tz, and threw.
C10_Witness ==
  op = "toUnixTimestamp" /\ date = Undefined /\ tz \in {"", NY} /\ IsThrow(ret)

\* C11: toUnixTimestamp handles invalid date input gracefully: for a null date
\* and for every unparseable date string (the empty string included), with tz
\* absent or recognized, it does not throw and returns NaN.
C11_UnixInvalidIsNaN ==
  (op = "toUnixTimestamp" /\ date \in InvalidInputs /\ tz \in KnownZones \cup {""})
    => ret = NaN

\* C12: fromUnixTimestamp throws whenever its timestamp argument is not of
\* numeric type (a string, null, undefined), for every tz, none and an
\* unknown one included; for every finite number it returns a Dayjs without
\* throwing when tz is absent or recognized.
C12_FromUnixTypeGuard ==
  op = "fromUnixTimestamp" =>
    /\ date.k \in {"str", "null", "undefined"} => IsThrow(ret)
    /\ (date \in Timestamps /\ tz \in KnownZones \cup {""})
         => (ret.k = "dayjs" /\ IsValid(ret))

C12_Witness ==
  op = "fromUnixTimestamp" /\ date = Null /\ tz = "Invalid/Zone" /\ IsThrow(ret)

\* C13: for every integer t, zero and negative included,
\* toUnixTimestamp(fromUnixTimestamp(t, "UTC"), "UTC") is t.
C13_UnixRoundTrip ==
  (/\ op = "toUnixTimestamp" /\ tz = "UTC"
   /\ prev.op = "fromUnixTimestamp" /\ prev.date \in Timestamps
   /\ prev.date.ms = 0)
  => ret = Num(prev.date.n)

C13_Witness ==
  /\ op = "toUnixTimestamp" /\ tz = "UTC"
  /\ prev.op = "fromUnixTimestamp" /\ prev.date = NumMs(-3600, 0)
  /\ date.k = "dayjs" /\ ret = Num(-3600)

\* C14: for every numeric t and every recognized tz ("UTC" and none included)
\* fromUnixTimestamp(t, tz) denotes the instant t * 1000 ms, kept to the
\* millisecond; tz changes only the civil fields, so the second and the
\* millisecond shown are those of the instant in UTC (every zone here has a
\* whole-minute offset).
C14_FromUnixKeepsInstant ==
  (op = "fromUnixTimestamp" /\ date \in Timestamps /\ tz \in KnownZones \cup {""})
  => /\ ret.k = "dayjs"
     /\ ValueOf(ret) = Tm(date.n, date.ms)
     /\ ret.f.s = date.n % 60
     /\ ret.f.ms = date.ms

\* The instant a valid string or Date denotes when no tz is given: the one
\* written, or the naive fields as wall-clock time of the host.
HostInstant(x) ==
  IF x.k = "date" THEN x.t
  ELSE IF HasOffset(x) THEN WrittenInstant(x)
  ELSE WallInstant(x, host)

\* C15: toUTC of a bare date-only string, in either shape YYYY-MM-DD or
\* YYYY/MM/DD, is 00:00:00.000 UTC on that same date on every host; every
\* other valid input (explicit time, explicit offset, Date) is converted from
\* its resolved instant to UTC civil fields.
C15_ToUtcDateOnly ==
  (op = "toUTC" /\ (date.k = "date" \/ IsNaive(date) \/ HasOffset(date)))
  => /\ ret.k = "dayjs" /\ ret.u
     /\ IF date.k = "str" /\ date.form \in {"date-", "date/"}
        THEN ret.f = date.f /\ ValueOf(ret) = Tm(SecOfCivil(date.f), 0)
        ELSE ValueOf(ret) = HostInstant(date)
               /\ ret.f = CivilOfUtc(HostInstant(date))

\* The instant a valid string or Date denotes when naive fields are UTC.
UtcInstant(x) ==
  IF x.k = "date" THEN x.t
  ELSE IF HasOffset(x) THEN WrittenInstant(x)
  ELSE Tm(SecOfCivil(x.f), x.f.ms)

\* C16: for every valid x and recognized tz, fromUTC(x, tz) denotes the
\* instant of x, read as UTC when x is naive (a date-only string is 00:00
\* UTC), and reports the civil fields that instant has in tz, which is never
\* a wall time that does not exist in tz (07:30Z on 2022-03-13 shows 03:30 in
\* America/New_York).
C16_FromUtc ==
  (/\ op = "fromUTC" /\ tz \in KnownZones
   /\ (date.k = "date" \/ IsNaive(date) \/ HasOffset(date)))
  => /\ ret.k = "dayjs"
     /\ ValueOf(ret) = UtcInstant(date)
     /\ ret.f = CivilIn(tz, UtcInstant(date))

\* The day number of the civil date of a valid x in a zone (the host's when
\* no tz is given): the date written in a naive string, which is wall-clock
\* time in the zone, and else the date the instant of x has there.
DayOf(c) == DaysFromCivil(c.y, c.mo, c.d)

CivilDayIn(x, zone) ==
  IF IsNaive(x) THEN DayOf(x.f)
  ELSE DayOf(CivilIn(IF zone = "" THEN host ELSE zone, HostInstant(x)))

IsValidInput(x) == x.k = "date" \/ IsNaive(x) \/ HasOffset(x)

\* C17: for all valid a and b and every recognized tz (or none),
\* daysBetween(a, b, tz) is the absolute difference, in whole days, between
\* the civil calendar dates of a and b in tz, time of day ignored, also across
\* a daylight-saving transition: a non-negative integer, symmetric, and 0
\* for daysBetween(a, a).
C17_DaysBetween ==
  (/\ op = "daysBetween" /\ tz \in KnownZones \cup {""}
   /\ IsValidInput(date) /\ IsValidInput(date2))
  => /\ ret = Num(Abs(CivilDayIn(date, tz) - CivilDayIn(date2, tz)))
     /\ ret.n >= 0
     /\ date = date2 => ret.n = 0

\* The instant a valid string or Date denotes with a tz: the one written, or
\* the naive fields as wall-clock time in tz (of the host when none is given).
InstantIn(x, zone) ==
  IF IsNaive(x) /\ zone # "" THEN WallInstant(x, zone) ELSE HostInstant(x)

\* C18: isBetween is inclusive at both ends: for valid x, a and b with a not
\* later than b, isBetween(x, a, b, tz) is true exactly when
\* instant(a) <= instant(x) <= instant(b).
C18_IsBetweenInclusive ==
  (/\ op = "isBetween" /\ tz \in KnownZones \cup {""}
   /\ IsValidInput(date) /\ IsValidInput(date2) /\ IsValidInput(date3)
   /\ ~TLess(InstantIn(date3, tz), InstantIn(date2, tz)))
  => ret = Bool(/\ ~TLess(InstantIn(date, tz), InstantIn(date2, tz))
                /\ ~TLess(InstantIn(date3, tz), InstantIn(date, tz)))

ThursdayOf(n) == n - ((WeekDayOf(n) + 6) % 7) + 3

IsoWeekOfDay(n) ==
  (ThursdayOf(n) - DaysFromCivil(CivilFromDays(ThursdayOf(n)).y, 1, 1)) \div 7 + 1

\* C20: for every valid date and every recognized tz (or none),
\* getISOWeek(date, tz) is in 1..53 and is the ISO-8601 week number of the
\* civil date the input's instant has in tz, for strings with an offset too.
C20_IsoWeekInTz ==
  (op = "getISOWeek" /\ tz \in KnownZones \cup {""} /\ IsValidInput(date))
  => /\ ret.k = "num"
     /\ ret.n \in 1..53
     /\ ret.n = IsoWeekOfDay(CivilDayIn(date, tz))

\* ISO 8601: the week-year of a day is the year of the Thursday of its week.
IsoYearOfDay(n) == CivilFromDays(ThursdayOf(n)).y

\* C21: getISOYear(date, tz) is the ISO-8601 week-year of the date's civil
\* date in tz: the calendar year minus 1 for a day early in January that
\* belongs to the last ISO week of the previous year, the calendar year plus
\* 1 for a day late in December that belongs to ISO week 1 of the next year,
\* and the calendar year otherwise.
C21_IsoYear ==
  (op = "getISOYear" /\ tz \in KnownZones \cup {""} /\ IsValidInput(date))
  => ret = Num(IsoYearOfDay(CivilDayIn(date, tz)))

\* The civil date of a valid x in a zone, as year, month and day.
CivilDateIn(x, zone) == CivilFromDays(CivilDayIn(x, zone))

\* C22: for a valid d and a recognized tz (or none), with m the civil month
\* of d in tz: getQuarter is (m - 1) div 3 + 1, in 1..4; startOfQuarter is
\* 00:00:00.000 on day 1 of month 3 * ((m - 1) div 3) + 1 and endOfQuarter is
\* 23:59:59.999 on the last day of month 3 * ((m - 1) div 3) + 3, both in the
\* civil year of d and as civil fields of the result's instant in tz.
C22_Quarter ==
  (tz \in KnownZones \cup {""} /\ IsValidInput(date)) =>
    LET c == CivilDateIn(date, tz)
        q == (c.mo - 1) \div 3
        zone == IF tz = "" THEN host ELSE tz
    IN  /\ op = "getQuarter" => ret = Num(q + 1) /\ ret.n \in 1..4
        /\ op = "startOfQuarter" =>
             /\ ret.k = "dayjs"
             /\ ret.f = Civil(c.y, 3 * q + 1, 1, 0, 0, 0, 0)
             /\ ret.f = CivilIn(zone, ValueOf(ret))
        /\ op = "endOfQuarter" =>
             /\ ret.k = "dayjs"
             /\ ret.f = Civil(c.y, 3 * q + 3, DaysInMonth(c.y, 3 * q + 3),
                              23, 59, 59, 999)
             /\ ret.f = CivilIn(zone, ValueOf(ret))

\* C23: for a valid d and a recognized tz (or none), startOfDay and endOfDay
\* keep the civil date of d in tz and set the time to 00:00:00.000 and
\* 23:59:59.999; startOfMonth and endOfMonth give day 1 and the last day of
\* the civil month of d at those times; each result carries the civil fields
\* and the UTC offset its instant has in tz, and start <= d <= end as
\* instants.
C23_DayAndMonthEdges ==
  (/\ op \in {"startOfDay", "endOfDay", "startOfMonth", "endOfMonth"}
   /\ tz \in KnownZones \cup {""} /\ IsValidInput(date))
  =>
    LET c == CivilDateIn(date, tz)
        zone == IF tz = "" THEN host ELSE tz
    IN  /\ ret.k = "dayjs"
        /\ ret.f = CivilIn(zone, ValueOf(ret))
        /\ UtcOffsetOf(ret) = ZoneOffsetAt(zone, ValueOf(ret).s)
        /\ op = "startOfDay" => ret.f = Civil(c.y, c.mo, c.d, 0, 0, 0, 0)
        /\ op = "startOfMonth" => ret.f = Civil(c.y, c.mo, 1, 0, 0, 0, 0)
        /\ op = "endOfDay" => ret.f = Civil(c.y, c.mo, c.d, 23, 59, 59, 999)
        /\ op = "endOfMonth" =>
             ret.f = Civil(c.y, c.mo, DaysInMonth(c.y, c.mo), 23, 59, 59, 999)
        /\ op \in {"startOfDay", "startOfMonth"} =>
             ~TLess(InstantIn(date, tz), ValueOf(ret))
        /\ op \in {"endOfDay", "endOfMonth"} =>
             ~TLess(ValueOf(ret), InstantIn(date, tz))

\* C24: for a valid d, a recognized tz (or none) and weekStart in 0..6
\* (0 when left out), startOfWeek(d, tz, weekStart) is 00:00:00.000 in tz on
\* the civil date whose weekday is weekStart and that lies
\* k = (weekday(d) - weekStart) mod 7 days before the civil date of d in tz.
C24_StartOfWeek ==
  (op = "startOfWeek" /\ tz \in KnownZones \cup {""} /\ IsValidInput(date))
  =>
    LET n == CivilDayIn(date, tz)
        k == (WeekDayOf(n) + 7 - amount) % 7
        zone == IF tz = "" THEN host ELSE tz
    IN  /\ ret.k = "dayjs"
        /\ DayOf(ret.f) = n - k
        /\ WeekDayOf(DayOf(ret.f)) = amount
        /\ ret.f.h = 0 /\ ret.f.mi = 0 /\ ret.f.s = 0 /\ ret.f.ms = 0
        /\ ret.f = CivilIn(zone, ValueOf(ret))

\* C25: for a valid d, a recognized tz (or none) and weekStart in 0..6,
\* endOfWeek(d, tz, weekStart) is 23:59:59.999 in tz on the civil date six
\* days after that of startOfWeek(d, tz, weekStart), so that
\* startOfWeek <= d <= endOfWeek as instants, also when a daylight-saving
\* transition lies in the week.
C25_EndOfWeek ==
  (op = "endOfWeek" /\ tz \in KnownZones \cup {""} /\ IsValidInput(date))
  =>
    LET zone == IF tz = "" THEN host ELSE tz
    IN  /\ ret.k = "dayjs"
        /\ DayOf(ret.f) = DayOf(startOfWeek(date, tz, amount).f) + 6
        /\ ret.f.h = 23 /\ ret.f.mi = 59 /\ ret.f.s = 59 /\ ret.f.ms = 999
        /\ ret.f = CivilIn(zone, ValueOf(ret))
        /\ ~TLess(InstantIn(date, tz), ValueOf(startOfWeek(date, tz, amount)))
        /\ ~TLess(ValueOf(ret), InstantIn(date, tz))

\* C26: addDays(d, n, tz) moves the civil date of d in tz by n days and keeps
\* the wall-clock time of day whenever that time exists on the target date;
\* so when tz changes its offset between d and the same wall time on the next
\* day, addDays(d, 1, tz) and addHours(d, 24, tz) are instants one hour apart.
C26_AddDaysKeepsWallTime ==
  (op = "addDays" /\ tz \in KnownZones \cup {""} /\ IsValidInput(date))
  =>
    LET zone   == IF tz = "" THEN host ELSE tz
        from   == InstantIn(date, tz)
        fields == CivilIn(zone, from)
        target == CivilOfUtc(Tm(SecOfCivil(fields) + amount * 86400, fields.ms))
        wall   == LocalToUtc(zone, SecOfCivil(target), target.ms)
        hours  == ValueOf(addUnit(date, 24, tz, "hour"))
    IN  /\ ret.k = "dayjs"
        /\ CivilIn(zone, wall) = target =>
             ret.f = target /\ CivilIn(zone, ValueOf(ret)) = target
        /\ (/\ amount = 1 /\ CivilIn(zone, wall) = target
            /\ ZoneOffsetAt(zone, from.s) # ZoneOffsetAt(zone, wall.s))
           => Abs(ValueOf(ret).s - hours.s) = 3600

\* C27: every Dayjs returned on valid input with a recognized tz (or none),
\* by an operation or by a chain of operations on earlier results, is
\* self-consistent: its civil fields and its UTC offset are those the zone
\* database gives for its instant in its zone, and each field is in range
\* (month 1..12, day within the month, hour 0..23, minute and second 0..59,
\* millisecond 0..999).
C27_SelfConsistent ==
  (/\ op # "" /\ ret.k = "dayjs" /\ IsValid(ret)
   /\ tz \in KnownZones \cup {""}
   /\ (IsValidInput(date) \/ date.k \in {"num", "dayjs"}))
  =>
    LET zone == IF ret.u THEN "UTC" ELSE IF tz = "" THEN host ELSE tz
    IN  /\ ret.f = CivilIn(zone, ValueOf(ret))
        /\ UtcOffsetOf(ret) = ZoneOffsetAt(zone, ValueOf(ret).s)
        /\ ret.f.mo \in 1..12
        /\ ret.f.d \in 1..DaysInMonth(ret.f.y, ret.f.mo)
        /\ ret.f.h \in 0..23 /\ ret.f.mi \in 0..59 /\ ret.f.s \in 0..59
        /\ ret.f.ms \in 0..999

\* C28: no operation changes state that a later call can observe: after any
\* sequence of calls of getMonthName and getDayName, with whatever locale
\* arguments, a call without a locale on a valid date returns the English
\* name, as it does when it is the first call.
C28_NoObservableState ==
  (/\ op \in {"getMonthName", "getDayName"} /\ locale = NoLocale
   /\ tz \in KnownZones \cup {""} /\ IsValidInput(date))
  => ret.k = "name" /\ ret.lang = "en"

\* The triple of C29 for a date given without tz; getDay is 0 for Sunday
\* where the ISO weekday is 7, and else the ISO weekday.
IsoTriple(x) == <<getISOYear(x, ""), getISOWeek(x, ""), getDay(x, "")>>

InDecade(x) ==
  x.k = "str" /\ x.form = "date-" /\ x.f.y \in 2020..2030

\* C29: over the civil dates from 2020-01-01 to 2030-12-31, the triple
\* (getISOYear(d), getISOWeek(d), ISO weekday of d) identifies d: two
\* different dates never have the same triple.
C29_TripleIdentifiesDate ==
  (InDecade(date) /\ InDecade(date2) /\ date.f # date2.f)
  => IsoTriple(date) # IsoTriple(date2)

\* C30: for valid a and b and a recognized tz (or none), exactly one of
\* isBefore(a, b, tz), isAfter(a, b, tz) and "a and b are the same instant"
\* holds; isBefore(a, b, tz) equals isAfter(b, a, tz); and isBefore(a, a, tz)
\* and isAfter(a, a, tz) are both false.
C30_Trichotomy ==
  (/\ op = "isBefore" /\ tz \in KnownZones \cup {""}
   /\ IsValidInput(date) /\ IsValidInput(date2))
  =>
    LET before == ret = Bool(TRUE)
        after  == isAfter(date, date2, tz) = Bool(TRUE)
        same   == InstantIn(date, tz) = InstantIn(date2, tz)
    IN  /\ ret.k = "bool"
        /\ (before /\ ~after /\ ~same) \/ (~before /\ after /\ ~same)
             \/ (~before /\ ~after /\ same)
        /\ ret = isAfter(date2, date, tz)
        /\ date = date2 => ~before /\ ~after

====
